---- MODULE Spec2Model ----
(***************************************************************************)
(* Agent Session Orchestrator (src/src/main/services/agent-manager.ts)     *)
(* together with the Worktree Registry of git-service.ts.                  *)
(*                                                                         *)
(* The program runs on the Node.js event loop: every IPC call and every    *)
(* child-process callback is one macrotask, and the promise continuations  *)
(* it resolves run before the next macrotask.  Hence one action per        *)
(* handler, each including the continuations it triggers (the catch and    *)
(* finally blocks of sendMessage run in the same step as the onClose or    *)
(* onError callback that settles runClaudeAgent's promise).                *)
(*                                                                         *)
(* Objects that the code shares by reference are kept in heaps:            *)
(*   objs   the AgentSession objects ever created for a tracked id,        *)
(*   turns  one entry per accepted sendMessage: its assistant Message,     *)
(*          its ChildProcess, the listeners of its runClaudeAgent closure  *)
(*          and the state of the promise the caller awaits.                *)
(* An object is never dropped from a heap: a session that was replaced or  *)
(* removed stays reachable from the closures of its turns, as in the code. *)
(*                                                                         *)
(* Sessions are independent of each other, so the ids in Ids are modelled  *)
(* in full and the sessions stored under any further id only by their      *)
(* number (otherSessions), which is all that sessions.size reads.          *)
(*                                                                         *)
(* Specifications: Spec (one id, the life of its turns), SpecReg (the      *)
(* session map and the registry), SpecApi (the public calls with every     *)
(* kind of argument), SpecUsage (result events and usage statistics),      *)
(* SpecStream (raw stdout chunks through the NDJSON line buffer),          *)
(* SpecTools (tool calls and tool results), SpecAuth (stderr and exit      *)
(* codes), SpecDecode (JSON documents that are not event objects),         *)
(* SpecEnv (the environment of the child process), SpecPair (two sessions  *)
(* side by side), SpecStderr (stderr chunks), SpecBin (the trusted         *)
(* binaries).                                                              *)
(***************************************************************************)
EXTENDS Integers, Sequences, FiniteSets, TLC

\* ---- program constants ----
MAX_SESSIONS == 50

\* ---- bounds of the model ----
MaxCalls == 3     \* successful createSession calls plus accepted sendMessage calls
MaxEvents == 1    \* stdout/stderr events delivered, over all turns
MaxChunks == 2    \* raw stdout chunks delivered, over all turns
MaxResults == 2   \* result events with a chosen payload delivered, over all turns
MaxToolEvents == 2  \* assistant/user records with chosen blocks delivered, over all turns
MaxStderr == 2    \* stderr chunks with a chosen text delivered, over all turns

Ids == {"w1", "w2"}
IdInputs == Ids \cup {""}

\* raw working-directory arguments
RawPaths == {"", "/repo-a", "/repo-a/.", "/other"}
\* paths git reports as repository roots / worktrees
GitPaths == {"/repo-a"}

Prompts == {"", "hi", "TOOLONG"}

VARIABLES
    sessions,            \* AgentManager.sessions for the tracked ids: id -> index in objs, 0 = absent
    otherSessions,       \* number of entries of AgentManager.sessions under other ids
    objs,                \* heap of AgentSession objects
    turns,               \* heap of turns (assistant Message, ChildProcess, closure, promise)
    knownWorktreePaths,  \* git-service.ts registry
    claudePath,          \* AgentManager.claudePath cache: the resolved binary, "" = null
    last                 \* the most recent public call and what it returned

vars == <<sessions, otherSessions, objs, turns, knownWorktreePaths, claudePath, last>>

\* ---- pure helpers ----

\* path.normalize(path.resolve(p)) on the modelled paths
NormalizeResolve(p) == IF p = "/repo-a/." THEN "/repo-a" ELSE p

validateWorkingDirectory(cwd) == IF cwd = "" THEN "null" ELSE NormalizeResolve(cwd)

\* resolveRealPath: normalize, then follow symlinks ("/link-a" is a symlink
\* to "/repo-a")
resolveRealPath(p) ==
    LET n == NormalizeResolve(p) IN IF n = "/link-a" THEN "/repo-a" ELSE n

validatePath(p) == IF p = "" THEN "null" ELSE resolveRealPath(p)

ZeroUsage ==
    [totalCostUsd |-> 0, inputTokens |-> 0, outputTokens |-> 0,
     cacheCreationInputTokens |-> 0, cacheReadInputTokens |-> 0,
     totalTurns |-> 0, lastDurationMs |-> 0]

\* the object literal of createSession
FreshSession(w, validCwd) ==
    [worktreeId |-> w, workingDirectory |-> validCwd, process |-> 0,
     isProcessing |-> FALSE, messages |-> <<>>, currentMessageId |-> 0,
     error |-> "none", eventCleanup |-> 0, usage |-> ZeroUsage]

NoStatus == [isActive |-> FALSE, isProcessing |-> FALSE, error |-> "none"]
\* had: whether the id had a session when the call was made
Ret(op, w, res, had) == [op |-> op, w |-> w, res |-> res, had |-> had, status |-> NoStatus]

\* sessions.size
SessionsSize == Cardinality({w \in Ids : sessions[w] # 0}) + otherSessions
Has(w) == w \in Ids /\ sessions[w] # 0

CallsLeft == Len(objs) + Len(turns) < MaxCalls

Init ==
    /\ sessions = [w \in Ids |-> 0]
    /\ otherSessions = 0
    /\ objs = <<>>
    /\ turns = <<>>
    /\ knownWorktreePaths = {}
    /\ claudePath = ""
    /\ last = Ret("init", "", "ok", FALSE)

\* ---- operations on the program state st = [sessions, objs, turns] ----

St == [sessions |-> sessions, objs |-> objs, turns |-> turns]

\* the cleanup closure of runClaudeAgent for turn t: removes the four listeners
\* and clears eventCleanup on the session object the closure captured
cleanup(st, t) ==
    [st EXCEPT !.objs[st.turns[t].sess].eventCleanup = 0,
               !.turns[t].attached = FALSE]

\* ChildProcess.kill(sig): delivers the signal and sets proc.killed only while
\* the process handle exists (the process was spawned and has not exited)
kill(tr, sig) ==
    IF tr.proc = "alive"
    THEN [tr EXCEPT !.killed = TRUE, !.signals = Append(@, sig)]
    ELSE tr

AbortDetach_Skip(st, o) == st

\* abortSession, "Clean up event listeners first"
AbortDetach(st, o) ==
    IF st.objs[o].eventCleanup # 0 THEN cleanup(st, st.objs[o].eventCleanup) ELSE st

AbortReset_KeepMessageId(st, o) == [st EXCEPT !.objs[o].isProcessing = FALSE]

AbortReset_AllSessions(st, o) ==
    [st EXCEPT !.objs = [i \in DOMAIN st.objs |->
                            [st.objs[i] EXCEPT !.isProcessing = FALSE,
                                               !.currentMessageId = 0]]]

AbortKill_HandleKept(st, o) ==
    LET p == st.objs[o].process IN
    IF p # 0
    THEN [st EXCEPT !.turns[p] = [kill(@, "SIGTERM") EXCEPT !.timer = TRUE]]
    ELSE st

\* abortSession, the `if (session.process)` block: SIGTERM, arm the 3 s
\* force-kill timer, clear the handle
AbortKill(st, o) ==
    LET p == st.objs[o].process IN
    IF p # 0
    THEN [st EXCEPT !.objs[o].process = 0,
                    !.turns[p] = [kill(@, "SIGTERM") EXCEPT !.timer = TRUE]]
    ELSE st

\* abortSession, the two trailing assignments
AbortReset(st, o) ==
    [st EXCEPT !.objs[o].isProcessing = FALSE, !.objs[o].currentMessageId = 0]

\* abortSession(w)
abortSession(st, w) ==
    LET o == st.sessions[w] IN
    IF o = 0 THEN st ELSE AbortReset(AbortKill(AbortDetach(st, o), o), o)

\* the rest of sendMessage after runClaudeAgent's promise settles: the catch
\* block when it rejected with err, then the finally block
Settle(st, t, err) ==
    LET o == st.turns[t].sess IN
    [st EXCEPT !.objs[o].error = IF err = "none" THEN @ ELSE err,
               !.objs[o].isProcessing = FALSE,
               !.objs[o].currentMessageId = 0,
               !.turns[t].pc = "returned",
               !.turns[t].settled = IF err = "none" THEN "resolved" ELSE "rejected",
               !.turns[t].effects = IF err = "none" THEN @ ELSE Append(@, "error")]

\* ---- createSession ----

CapacityReached_OffByOne(has) == SessionsSize > MAX_SESSIONS /\ ~has

\* "Enforce session limit"
CapacityReached(has) == SessionsSize >= MAX_SESSIONS /\ ~has

isKnownWorktreePath_Always(known, p) == TRUE

\* GitService.isKnownWorktreePath over the registry `known`
isKnownWorktreePath(known, p) ==
    LET validPath == validatePath(p) IN
    IF validPath = "null" THEN FALSE ELSE validPath \in known

\* the checks of createSession, in order; has: the id already has a session
createSessionResult(w, cwd, has) ==
    IF w = "" THEN "Invalid worktree ID"
    ELSE IF validateWorkingDirectory(cwd) = "null" THEN "Invalid working directory"
    ELSE IF ~isKnownWorktreePath(knownWorktreePaths, validateWorkingDirectory(cwd))
        THEN "Working directory is not a known worktree"
    ELSE IF CapacityReached(has) THEN "Maximum sessions reached"
    ELSE "ok"

createSessionOn_NoAbort(st, w, cwd) ==
    [st EXCEPT !.objs = Append(@, FreshSession(w, validateWorkingDirectory(cwd))),
               !.sessions[w] = Len(st.objs) + 1]

\* createSession once its checks passed: abort the existing session if any,
\* then store a fresh session object under the id
createSessionOn(st, w, cwd) ==
    LET st1 == abortSession(st, w) IN
    [st1 EXCEPT !.objs = Append(@, FreshSession(w, validateWorkingDirectory(cwd))),
                !.sessions[w] = Len(st1.objs) + 1]

CreateSession(w, cwd) ==
    LET res == createSessionResult(w, cwd, Has(w)) IN
    /\ last' = Ret("createSession", w, res, Has(w))
    /\ IF res # "ok"
       THEN UNCHANGED <<sessions, objs, turns>>
       ELSE /\ CallsLeft
            /\ LET st == createSessionOn(St, w, cwd) IN
               /\ objs' = st.objs
               /\ turns' = st.turns
               /\ sessions' = st.sessions
    /\ UNCHANGED <<otherSessions, knownWorktreePaths, claudePath>>

\* createSession for an id outside Ids (its session stays idle); exists says
\* whether that id already has a session
CreateSessionOther(exists, cwd) ==
    LET res == createSessionResult("other", cwd, exists) IN
    /\ exists => otherSessions > 0
    /\ last' = Ret("createSession", "other", res, exists)
    /\ otherSessions' = IF res = "ok" /\ ~exists THEN otherSessions + 1 ELSE otherSessions
    /\ UNCHANGED <<sessions, objs, turns, knownWorktreePaths, claudePath>>

\* ---- abortSession / removeSession / getSessionStatus ----

AbortSession(w) ==
    /\ last' = Ret("abortSession", w, "ok", Has(w))
    /\ LET st == IF w \in Ids THEN abortSession(St, w) ELSE St IN
       /\ objs' = st.objs
       /\ turns' = st.turns
    /\ UNCHANGED <<sessions, otherSessions, knownWorktreePaths, claudePath>>

removeSession_NoAbort(st, w) == [st EXCEPT !.sessions[w] = 0]

\* removeSession(w): abort, then delete the map entry
removeSession(st, w) == [abortSession(st, w) EXCEPT !.sessions[w] = 0]

RemoveSession(w) ==
    /\ last' = Ret("removeSession", w, "ok", Has(w))
    /\ LET st == IF w \in Ids THEN removeSession(St, w) ELSE St IN
       /\ objs' = st.objs
       /\ turns' = st.turns
       /\ sessions' = st.sessions
    /\ UNCHANGED <<otherSessions, knownWorktreePaths, claudePath>>

RemoveSessionOther ==
    /\ otherSessions > 0
    /\ otherSessions' = otherSessions - 1
    /\ last' = Ret("removeSession", "other", "ok", TRUE)
    /\ UNCHANGED <<sessions, objs, turns, knownWorktreePaths, claudePath>>

getSessionStatus_AlwaysActive(w) ==
    [isActive |-> TRUE, isProcessing |-> FALSE, error |-> "none"]

getSessionStatus(w) ==
    IF ~Has(w) THEN NoStatus
    ELSE [isActive |-> TRUE, isProcessing |-> objs[sessions[w]].isProcessing,
          error |-> objs[sessions[w]].error]

GetSessionStatus(w) ==
    /\ last' = [Ret("getSessionStatus", w, "ok", Has(w)) EXCEPT !.status = getSessionStatus(w)]
    /\ UNCHANGED <<sessions, otherSessions, objs, turns, knownWorktreePaths, claudePath>>

\* ---- sendMessage ----

IsBusy_Never(s) == FALSE

\* the isProcessing guard of sendMessage
IsBusy(s) == s.isProcessing

sendMessageResult_NoLengthCheck(w, message) ==
    IF w = "" THEN "Invalid worktree ID"
    ELSE IF message = "" THEN "Invalid message"
    ELSE IF ~Has(w) THEN "Session not found"
    ELSE IF IsBusy(objs[sessions[w]]) THEN "Agent is busy"
    ELSE "accepted"

\* the checks of sendMessage, in order; "TOOLONG" is a message of more than
\* MAX_PROMPT_LENGTH characters
sendMessageResult(w, message) ==
    IF w = "" THEN "Invalid worktree ID"
    ELSE IF message = "" THEN "Invalid message"
    ELSE IF message = "TOOLONG" THEN "Message too long"
    ELSE IF ~Has(w) THEN "Session not found"
    ELSE IF IsBusy(objs[sessions[w]]) THEN "Agent is busy"
    ELSE "accepted"

\* the candidate binaries of findClaudePath in the order it tries them: the
\* two CLAUDE_SAFE_PATHS, then $HOME/.local/bin/claude
Candidates == <<"/usr/local/bin/claude", "/opt/homebrew/bin/claude", "~/.local/bin/claude">>

\* the candidates findClaudePath tries when process.env is host: the third
\* one only when HOME is set and not empty
Tried(host) ==
    IF "HOME" \in DOMAIN host /\ host["HOME"] # "" THEN {1, 2, 3} ELSE {1, 2}

\* findClaudePath(): the cached path if there is one, else the first candidate
\* that passes verifySafeBinary now (safe: the paths that pass it at the time
\* of the call), else "" for the thrown error
findClaudePath(cache, safe, host) ==
    IF cache # "" THEN cache
    ELSE LET hits == {i \in Tried(host) : Candidates[i] \in safe} IN
         IF hits = {} THEN ""
         ELSE Candidates[CHOOSE i \in hits : \A j \in hits : i <= j]

\* the paths that pass verifySafeBinary in the calls that do not choose them:
\* the first candidate or none, and a binary that was resolved stays trusted
SafeBinaries(trusted) == IF trusted \/ claudePath # "" THEN {Candidates[1]} ELSE {}

\* findClaudePath does not throw (trusted: the first candidate passes
\* verifySafeBinary at the time of the call)
findClaudePathOk(trusted) ==
    findClaudePath(claudePath, SafeBinaries(trusted), [k \in {} |-> ""]) # ""

\* an environment is a function from the names that are set to their values
NoEnv == [k \in {} |-> ""]

SAFE_ENV_VARS == {"HOME", "USER", "PATH", "LANG", "LC_ALL", "TERM", "TMPDIR"}

getSafeEnv_PassAll(host) == host

\* getSafeEnv() when process.env is host: an allow-listed name is copied when
\* its value is truthy, that is set and not the empty string
getSafeEnv(host) ==
    [k \in {n \in SAFE_ENV_VARS \cap DOMAIN host : host[n] # ""} |-> host[k]]

\* the host environment of the calls that do not choose one
DefaultEnv == [HOME |-> "v", PATH |-> "v"]

\* host environments: each of the names unset, empty or set
EnvNames == {"HOME", "PATH", "API_KEY"}
HostEnvs == UNION {[names -> {"", "v"}] : names \in SUBSET EnvNames}

\* settled: the state of runClaudeAgent's promise; lineBuffer: the closure's
\* NDJSON buffer; results, nchunks, received: the result events, the number
\* of stdout chunks and the decoded stdout text the turn's listeners have
\* handled; finalEmits: the number of emitMessage calls that sent the assistant
\* Message with isStreaming false; toolCalls: the ToolCalls emitted; handled:
\* the assistant/user records with chosen blocks the listeners have handled;
\* stderrAuth: isAuthError(stderrBuffer) of the closure; uncaught: the number
\* of exceptions thrown out of a listener of the turn; hostEnv: process.env
\* when the child was spawned; env: the env option given to spawn;
\* stderrBuffer: the closure's accumulated stderr text, as its chunks in order;
\* binary: the path given to spawn; safeAtSpawn: the paths that passed
\* verifySafeBinary when it was spawned
NewTurn(o) ==
    [sess |-> o, content |-> <<>>, isStreaming |-> TRUE, pc |-> "awaiting",
     proc |-> "none", attached |-> FALSE, killed |-> FALSE, timer |-> FALSE,
     signals |-> <<>>, effects |-> <<"message">>, nlines |-> 0,
     settled |-> "pending", lineBuffer |-> <<>>, results |-> <<>>, nchunks |-> 0,
     received |-> <<>>, finalEmits |-> 0, toolCalls |-> <<>>, handled |-> <<>>,
     stderrAuth |-> FALSE, uncaught |-> 0,
     hostEnv |-> NoEnv, env |-> NoEnv, stderrBuffer |-> <<>>,
     binary |-> "", safeAtSpawn |-> {}]

AcceptPrompt_AssistantOnly(st, o, t) ==
    [st EXCEPT !.objs[o].isProcessing = TRUE,
               !.objs[o].messages = @ \o <<[role |-> "assistant", id |-> t]>>,
               !.objs[o].currentMessageId = t,
               !.turns = Append(@, NewTurn(o))]

\* sendMessage lines 357-378: mark busy, push and emit the user Message, push
\* the streaming assistant Message
AcceptPrompt(st, o, t) ==
    [st EXCEPT !.objs[o].isProcessing = TRUE,
               !.objs[o].messages = @ \o <<[role |-> "user", id |-> t],
                                           [role |-> "assistant", id |-> t]>>,
               !.objs[o].currentMessageId = t,
               !.turns = Append(@, NewTurn(o))]

\* runClaudeAgent after a binary was found: spawn, keep the handle, attach the
\* listeners, store the cleanup closure.  spawned = FALSE: the spawn fails and
\* the ChildProcess will raise 'error'.  host is process.env, path the binary
SpawnAgent(st, o, t, spawned, host, path, safe) ==
    [st EXCEPT !.objs[o].process = t,
               !.turns[t].binary = path,
               !.turns[t].safeAtSpawn = safe,
               !.objs[o].eventCleanup = t,
               !.turns[t].hostEnv = host,
               !.turns[t].env = getSafeEnv(host),
               !.turns[t].proc = IF spawned THEN "alive" ELSE "failed",
               !.turns[t].attached = TRUE]

\* sendMessage(w, message) when process.env is host and the paths in safe pass
\* verifySafeBinary
SendMessageBin(w, message, safe, spawned, host) ==
    LET res == sendMessageResult(w, message)
        path == findClaudePath(claudePath, safe, host)
    IN
    IF res # "accepted"
    THEN /\ last' = Ret("sendMessage", w, res, Has(w))
         /\ UNCHANGED <<sessions, otherSessions, objs, turns, knownWorktreePaths,
                        claudePath>>
    ELSE /\ CallsLeft
         /\ LET o == sessions[w]
                t == Len(turns) + 1
                h0 == AcceptPrompt(St, o, t)
                h1 == IF path # ""
                      THEN SpawnAgent(h0, o, t, spawned, host, path, safe)
                      ELSE Settle(h0, t, "Claude CLI not found in safe locations")
            IN /\ objs' = h1.objs
               /\ turns' = h1.turns
               /\ last' = Ret("sendMessage", w, IF path # "" THEN "pending" ELSE "ok", TRUE)
         /\ claudePath' = path
         /\ UNCHANGED <<sessions, otherSessions, knownWorktreePaths>>

SendMessageEnv(w, message, trusted, spawned, host) ==
    SendMessageBin(w, message, SafeBinaries(trusted), spawned, host)

SendMessage(w, message, trusted, spawned) ==
    SendMessageEnv(w, message, trusted, spawned, DefaultEnv)

\* ---- callbacks of the child process of turn t ----

OrZero_One(x) == IF x = <<>> THEN 1 ELSE x[1]

\* an optional numeric field of an event: <<>> when absent, <<n>> when present
OrZero(x) == IF x = <<>> THEN 0 ELSE x[1]

\* a result event reporting one turn, one input and one output token, cost 1
\* and duration 1
UnitResult ==
    [subtype |-> "success", result |-> <<>>,
     usage |-> <<[input_tokens |-> <<1>>, output_tokens |-> <<1>>,
                  cache_creation_input_tokens |-> <<>>,
                  cache_read_input_tokens |-> <<>>]>>,
     total_cost_usd |-> <<1>>, num_turns |-> <<1>>, duration_ms |-> <<1>>]

\* parseStreamLine, "Accumulate usage statistics"
accumulateUsage(u, ev) ==
    LET u1 == IF ev.usage # <<>>
              THEN [u EXCEPT
                      !.inputTokens = @ + OrZero(ev.usage[1].input_tokens),
                      !.outputTokens = @ + OrZero(ev.usage[1].output_tokens),
                      !.cacheCreationInputTokens =
                          @ + OrZero(ev.usage[1].cache_creation_input_tokens),
                      !.cacheReadInputTokens =
                          @ + OrZero(ev.usage[1].cache_read_input_tokens)]
              ELSE u
        u2 == IF ev.total_cost_usd # <<>>
              THEN [u1 EXCEPT !.totalCostUsd = ev.total_cost_usd[1]] ELSE u1
        u3 == IF ev.num_turns # <<>>
              THEN [u2 EXCEPT !.totalTurns = @ + ev.num_turns[1]] ELSE u2
    IN IF ev.duration_ms # <<>>
       THEN [u3 EXCEPT !.lastDurationMs = ev.duration_ms[1]] ELSE u3

resultText_AnySubtype(ev) == ev.result

\* the text a result event adds to the assistant Message
resultText(ev) == IF ev.subtype = "error" /\ ev.result # <<>> THEN ev.result ELSE <<>>

\* parseStreamLine, case 'result'
parseResult(h, t, ev) ==
    LET o == h.turns[t].sess IN
    [h EXCEPT !.turns[t].content = @ \o resultText(ev),
              !.turns[t].isStreaming = FALSE,
              !.turns[t].effects = @ \o <<"message", "usage">>,
              !.turns[t].finalEmits = @ + 1,
              !.turns[t].results = Append(@, ev),
              !.objs[o].usage = accumulateUsage(@, ev)]

\* the content blocks of the modelled records: "u" is a tool_use block, "o" a
\* tool_result block, and a text block is named by its text: the letter t, the
\* letter e with an acute accent, or the replacement character U+FFFD
TextBlocks == {"t", "eacute", "FFFD"}

\* An optional field of a block is <<>> when absent and <<v>> when present.
\* The content of a tool_result block is a string (kind "string", text), an
\* array of sub-blocks (kind "array", items), absent or of another type.
NoContent == [kind |-> "absent", text |-> "", items |-> <<>>]

Block(type) ==
    [type |-> type, text |-> <<>>, id |-> <<>>, name |-> <<>>, input |-> <<>>,
     tool_use_id |-> <<>>, content |-> NoContent]

Truthy_Present(x) == x # <<>>

\* JavaScript truthiness of an optional string field
Truthy(x) == x # <<>> /\ x # <<"">>

JoinNL_Concat(texts) == texts

\* Array.join('\n'), as a sequence of pieces
RECURSIVE JoinNL(_)
JoinNL(texts) ==
    IF Len(texts) <= 1 THEN texts
    ELSE <<Head(texts), "\n">> \o JoinNL(Tail(texts))

\* case 'user': the output of a tool_result block
toolResultOutput(content) ==
    IF content.kind = "string"
    THEN IF content.text = "" THEN <<>> ELSE <<content.text>>
    ELSE IF content.kind = "array"
    THEN LET IsTextItem(c) == c.type = "text" /\ c.text # <<>>
             items == SelectSeq(content.items, IsTextItem)
         IN JoinNL([i \in 1..Len(items) |-> items[i].text[1]])
    ELSE <<>>

\* one iteration of the block loop of case 'assistant' / case 'user' on the
\* content block b
parseContentBlock(h, t, type, b) ==
    IF type = "assistant" /\ b.type = "text" /\ b.text # <<>>
    THEN [h EXCEPT !.turns[t].content = Append(@, b.text[1]),
                   !.turns[t].effects = Append(@, "message"),
                   !.turns[t].finalEmits = IF h.turns[t].isStreaming THEN @ ELSE @ + 1]
    ELSE IF type = "assistant" /\ b.type = "tool_use" /\ Truthy(b.id) /\ Truthy(b.name)
    THEN [h EXCEPT !.turns[t].effects = Append(@, "tool"),
                   !.turns[t].toolCalls =
                       Append(@, [id |-> b.id[1], name |-> b.name[1],
                                  input |-> IF b.input = <<>> THEN "{}" ELSE b.input[1],
                                  status |-> "running", output |-> <<>>])]
    ELSE IF type = "user" /\ b.type = "tool_result" /\ Truthy(b.tool_use_id)
    THEN [h EXCEPT !.turns[t].effects = Append(@, "tool_done"),
                   !.turns[t].toolCalls =
                       Append(@, [id |-> b.tool_use_id[1], name |-> "",
                                  input |-> "{}",
                                  status |-> "completed",
                                  output |-> toolResultOutput(b.content)])]
    ELSE h

\* the content block a block letter stands for
BlockOf(letter) ==
    IF letter \in TextBlocks THEN [Block("text") EXCEPT !.text = <<letter>>]
    ELSE IF letter = "u"
    THEN [Block("tool_use") EXCEPT !.id = <<"tu">>, !.name = <<"Bash">>]
    ELSE [Block("tool_result") EXCEPT
             !.tool_use_id = <<"tu">>,
             !.content = [kind |-> "string", text |-> "out", items |-> <<>>]]

\* a TypeError thrown in parseStreamLine: nothing between the throw and the
\* listener that called it catches it
Throw(h, t) == [h EXCEPT !.turns[t].uncaught = @ + 1]

Threw(h0, h, t) == h.turns[t].uncaught # h0.turns[t].uncaught

\* one iteration of the block loop on a block letter
parseBlock(h, t, type, block) == parseContentBlock(h, t, type, BlockOf(block))

RECURSIVE parseBlocks(_, _, _, _)
parseBlocks(h, t, type, blocks) ==
    IF blocks = <<>> THEN h
    ELSE IF Head(blocks) = "n" THEN Throw(h, t)
    ELSE parseBlocks(parseBlock(h, t, type, Head(blocks)), t, type, Tail(blocks))

\* parseStreamLine after JSON.parse succeeded: the switch on event.type
parseEvent(h, t, type, blocks, res) ==
    IF type \in {"assistant", "user"} THEN parseBlocks(h, t, type, blocks)
    ELSE IF type = "result" THEN parseResult(h, t, res)
    ELSE h

\* the block loop of case 'assistant' / case 'user' on content blocks
RECURSIVE parseContentBlocks(_, _, _, _)
parseContentBlocks(h, t, type, blocks) ==
    IF blocks = <<>> THEN h
    ELSE parseContentBlocks(parseContentBlock(h, t, type, Head(blocks)), t, type,
                            Tail(blocks))

LineKinds == {"text", "tool_use", "result"}

\* parseStreamLine on one decoded line of the given kind: an assistant record
\* with one text block, one with a tool_use block, a result event
parseStreamLine(h, t, kind) ==
    CASE kind = "text" -> parseEvent(h, t, "assistant", <<"t">>, UnitResult)
      [] kind = "tool_use" -> parseEvent(h, t, "assistant", <<"u">>, UnitResult)
      [] kind = "result" -> parseEvent(h, t, "result", <<>>, UnitResult)

\* ---- the stdout stream of the child process ----
\* A chunk is a sequence of bytes.  The modelled JSON documents are "{", a
\* type letter (A assistant, U user, R result, S system), the content blocks
\* of the record, "}".  C3 A9 is the two-byte UTF-8 encoding of e-acute.
\* The block letter n is a null element of the content list; "null" and "5"
\* are the JSON documents null and 5.

\* Buffer.toString(): UTF-8 decoding of one chunk on its own; a lead byte
\* without its continuation byte, and a continuation byte without its lead
\* byte, each decode to U+FFFD
RECURSIVE BufferToString(_)
BufferToString(data) ==
    IF data = <<>> THEN <<>>
    ELSE IF Head(data) = "C3" /\ Len(data) >= 2 /\ data[2] = "A9"
    THEN <<"eacute">> \o BufferToString(Tail(Tail(data)))
    ELSE IF Head(data) \in {"C3", "A9"}
    THEN <<"FFFD">> \o BufferToString(Tail(data))
    ELSE <<Head(data)>> \o BufferToString(Tail(data))

\* String.split('\n'): n newlines give n + 1 pieces
RECURSIVE SplitLines(_)
SplitLines(str) ==
    IF str = <<>> THEN << <<>> >>
    ELSE LET r == SplitLines(Tail(str)) IN
         IF Head(str) = "\n" THEN << <<>> >> \o r
         ELSE << <<Head(str)>> \o Head(r) >> \o Tail(r)

RECURSIVE TrimStart(_)
TrimStart(str) ==
    IF str # <<>> /\ Head(str) = " " THEN TrimStart(Tail(str)) ELSE str

RECURSIVE TrimEnd(_)
TrimEnd(str) ==
    IF str # <<>> /\ str[Len(str)] = " " THEN TrimEnd(SubSeq(str, 1, Len(str) - 1)) ELSE str

\* String.trim()
Trim(str) == TrimEnd(TrimStart(str))

TypeLetters == {"A", "U", "R", "S"}
BlockLetters == TextBlocks \cup {"u", "o", "n"}

JsonParses_Truncated(str) == Len(str) >= 2 /\ str[1] = "{"

\* JSON.parse(line) does not throw
JsonParses(str) ==
    \/ str \in {<<"null">>, <<"5">>}
    \/ /\ Len(str) >= 2
       /\ str[1] = "{"
       /\ str[Len(str)] = "}"
       /\ Len(str) >= 3 => str[2] \in TypeLetters
       /\ \A i \in 3..(Len(str) - 1) : str[i] \in BlockLetters

\* event.type of the parsed document
EventType(str) ==
    IF Len(str) < 3 THEN "undefined"
    ELSE CASE str[2] = "A" -> "assistant"
           [] str[2] = "U" -> "user"
           [] str[2] = "R" -> "result"
           [] OTHER -> "system"

\* event.message.content of the parsed document
EventBlocks(str) == SubSeq(str, 3, Len(str) - 1)

\* parseStreamLine(line, session, assistantMessage) on the text of a line
parseStreamLineText(h, t, line) ==
    IF ~JsonParses(line) THEN h
    ELSE IF line = <<"null">> THEN Throw(h, t)
    ELSE parseEvent(h, t, EventType(line), EventBlocks(line), UnitResult)

RECURSIVE parseLines_LastFirst(_, _, _)
parseLines_LastFirst(h, t, lines) ==
    IF lines = <<>> THEN h
    ELSE LET trimmed == Trim(Head(lines))
             h0 == parseLines_LastFirst(h, t, Tail(lines))
         IN IF Len(trimmed) = 0 THEN h0 ELSE parseStreamLineText(h0, t, trimmed)

\* the loop of onStdout over the complete lines
RECURSIVE parseLines(_, _, _)
parseLines(h, t, lines) ==
    IF lines = <<>> THEN h
    ELSE LET trimmed == Trim(Head(lines))
             h1 == IF Len(trimmed) = 0 THEN h ELSE parseStreamLineText(h, t, trimmed)
         IN IF Threw(h, h1, t) THEN h1 ELSE parseLines(h1, t, Tail(lines))

\* onStdout(data): append the decoded chunk to the buffer, keep the last
\* piece in the buffer, parse the others
onStdout(h, t, data) ==
    LET lines == SplitLines(h.turns[t].lineBuffer \o BufferToString(data))
        h1 == [h EXCEPT !.turns[t].lineBuffer = lines[Len(lines)]]
    IN parseLines(h1, t, SubSeq(lines, 1, Len(lines) - 1))

flushLineBuffer_Skip(h, t) == h

\* onClose, "Flush any remaining data in the line buffer"
flushLineBuffer(h, t) ==
    LET trimmed == Trim(h.turns[t].lineBuffer) IN
    IF Len(trimmed) > 0 THEN parseStreamLineText(h, t, trimmed) ELSE h

Listening(t) == turns[t].attached /\ turns[t].proc = "alive"

RECURSIVE SumLines(_, _)
SumLines(ts, n) == IF n = 0 THEN 0 ELSE ts[n].nlines + SumLines(ts, n - 1)
EventsLeft == SumLines(turns, Len(turns)) < MaxEvents

OnStdout(t, kind) ==
    /\ Listening(t)
    /\ EventsLeft
    /\ LET h == parseStreamLine([St EXCEPT !.turns[t].nlines = @ + 1], t, kind) IN
       /\ objs' = h.objs
       /\ turns' = h.turns
    /\ UNCHANGED <<sessions, otherSessions, knownWorktreePaths, claudePath, last>>

\* stdout chunks the child process writes
Chunks ==
    { <<"{", "A", "t", "}", "\n">>,
      <<"{", "A", "u", "C3">>,
      <<"A9", "}", "\n">>,
      <<"{", "A", "C3", "A9", "}", "\n", "{", "R", "}", "\n">>,
      <<" ", "\n", "x", "\n">>,
      <<"{", "U", "o", "}">>,
      <<"\n">>,
      <<"{", "R", "}", " ">>,
      <<"\n", " ">> }

RECURSIVE SumChunks(_, _)
SumChunks(ts, n) == IF n = 0 THEN 0 ELSE ts[n].nchunks + SumChunks(ts, n - 1)
ChunksLeft == SumChunks(turns, Len(turns)) < MaxChunks

\* the 'data' event of stdout with the chunk data
OnStdoutData(t, data) ==
    /\ Listening(t)
    /\ ChunksLeft
    /\ LET h == onStdout([St EXCEPT !.turns[t].nchunks = @ + 1,
                                    !.turns[t].received = @ \o BufferToString(data)],
                         t, data) IN
       /\ objs' = h.objs
       /\ turns' = h.turns
    /\ UNCHANGED <<sessions, otherSessions, knownWorktreePaths, claudePath, last>>

\* result events the child process reports: the two turns of a session with
\* usage {input 10, output 5} then {input 3, output 7}, and an error result
\* that carries no numbers
ResultEvents ==
    { [subtype |-> "success", result |-> <<"done">>,
       usage |-> <<[input_tokens |-> <<10>>, output_tokens |-> <<5>>,
                    cache_creation_input_tokens |-> <<1>>,
                    cache_read_input_tokens |-> <<2>>]>>,
       total_cost_usd |-> <<2>>, num_turns |-> <<1>>, duration_ms |-> <<7>>],
      [subtype |-> "success", result |-> <<>>,
       usage |-> <<[input_tokens |-> <<3>>, output_tokens |-> <<7>>,
                    cache_creation_input_tokens |-> <<>>,
                    cache_read_input_tokens |-> <<>>]>>,
       total_cost_usd |-> <<1>>, num_turns |-> <<2>>, duration_ms |-> <<4>>],
      [subtype |-> "error", result |-> <<"err">>,
       usage |-> <<>>,
       total_cost_usd |-> <<>>, num_turns |-> <<>>, duration_ms |-> <<>>] }

RECURSIVE SumResults(_, _)
SumResults(ts, n) == IF n = 0 THEN 0 ELSE Len(ts[n].results) + SumResults(ts, n - 1)
ResultsLeft == SumResults(turns, Len(turns)) < MaxResults

\* the 'data' event of stdout with a chunk that is one complete line, the
\* result event ev
OnStdoutResult(t, ev) ==
    /\ Listening(t)
    /\ ResultsLeft
    /\ turns[t].lineBuffer = <<>>
    /\ LET h == parseEvent(St, t, "result", <<>>, ev) IN
       /\ objs' = h.objs
       /\ turns' = h.turns
    /\ UNCHANGED <<sessions, otherSessions, knownWorktreePaths, claudePath, last>>

\* assistant and user records the child process reports: a tool_use block
\* and one without a name; a tool_result with string content; a tool_result
\* with array content; a tool_result for an id no tool_use announced, without
\* content, and one without an id
ToolEvents ==
    { [type |-> "assistant",
       blocks |-> << [Block("tool_use") EXCEPT !.id = <<"t1">>, !.name = <<"Bash">>],
                     [Block("tool_use") EXCEPT !.id = <<"t3">>] >>],
      [type |-> "assistant",
       blocks |-> << [Block("text") EXCEPT !.text = <<"t">>],
                     [Block("tool_use") EXCEPT !.id = <<"t2">>, !.name = <<"Read">>,
                                               !.input = <<"file">>],
                     [Block("tool_use") EXCEPT !.id = <<"">>, !.name = <<"Bash">>],
                     [Block("tool_use") EXCEPT !.name = <<"Read">>],
                     [Block("tool_use") EXCEPT !.id = <<"t4">>, !.name = <<"">>],
                     [Block("text") EXCEPT !.text = <<"eacute">>] >>],
      [type |-> "user",
       blocks |-> << [Block("tool_result") EXCEPT
                        !.tool_use_id = <<"t1">>,
                        !.content = [kind |-> "string", text |-> "out", items |-> <<>>]] >>],
      [type |-> "user",
       blocks |-> << [Block("tool_result") EXCEPT
                        !.tool_use_id = <<"t1">>,
                        !.content = [kind |-> "array", text |-> "",
                                     items |-> << [type |-> "text", text |-> <<"a">>],
                                                  [type |-> "image", text |-> <<>>],
                                                  [type |-> "text", text |-> <<>>],
                                                  [type |-> "text", text |-> <<"b">>] >>]] >>],
      [type |-> "user",
       blocks |-> << [Block("tool_result") EXCEPT !.tool_use_id = <<"t2">>],
                     [Block("tool_result") EXCEPT
                        !.content = [kind |-> "string", text |-> "x", items |-> <<>>]] >>] }

RECURSIVE SumHandled(_, _)
SumHandled(ts, n) == IF n = 0 THEN 0 ELSE Len(ts[n].handled) + SumHandled(ts, n - 1)
ToolEventsLeft == SumHandled(turns, Len(turns)) < MaxToolEvents

\* the 'data' event of stdout with a chunk that is one complete line, the
\* assistant or user record ev
OnStdoutEvent(t, ev) ==
    /\ Listening(t)
    /\ ToolEventsLeft
    /\ turns[t].lineBuffer = <<>>
    /\ LET h == parseContentBlocks([St EXCEPT !.turns[t].handled = Append(@, ev)],
                                   t, ev.type, ev.blocks) IN
       /\ objs' = h.objs
       /\ turns' = h.turns
    /\ UNCHANGED <<sessions, otherSessions, knownWorktreePaths, claudePath, last>>

\* isAuthError(text) on a text given as its chunks in order: some pattern of
\* AUTH_ERROR_PATTERNS occurs in the concatenation
isAuthError(text) ==
    \E i \in 1..Len(text) :
        \/ text[i] \in {"not authenticated", "unauthorized"}
        \/ i < Len(text) /\ text[i] = "not authen" /\ text[i + 1] = "ticated"

\* onStderr(data) with the chunk text errText
onStderr(h, t, errText) ==
    LET h1 == [h EXCEPT !.turns[t].stderrBuffer = Append(@, errText)] IN
    IF isAuthError(h1.turns[t].stderrBuffer)
    THEN [h1 EXCEPT !.turns[t].content = <<"AUTH">>,
                    !.turns[t].isStreaming = FALSE,
                    !.turns[t].effects = @ \o <<"message", "error">>,
                    !.turns[t].finalEmits = @ + 1,
                    !.turns[t].stderrAuth = TRUE]
    ELSE h1

\* onStderr with a chunk that matches an auth-failure pattern
OnStderrAuth(t) ==
    /\ Listening(t)
    /\ EventsLeft
    /\ turns' = onStderr([St EXCEPT !.turns[t].nlines = @ + 1], t, "not authenticated").turns
    /\ UNCHANGED <<sessions, otherSessions, objs, knownWorktreePaths, claudePath, last>>

\* stderr chunks the child process writes
StderrChunks == {"warning", "not authen", "ticated", "unauthorized"}

RECURSIVE SumStderr(_, _)
SumStderr(ts, n) == IF n = 0 THEN 0 ELSE Len(ts[n].stderrBuffer) + SumStderr(ts, n - 1)
StderrLeft == SumStderr(turns, Len(turns)) < MaxStderr

\* the 'data' event of stderr with the chunk text errText
OnStderrData(t, errText) ==
    /\ Listening(t)
    /\ StderrLeft
    /\ turns' = onStderr(St, t, errText).turns
    /\ UNCHANGED <<sessions, otherSessions, objs, knownWorktreePaths, claudePath, last>>

\* onClose(code) followed by the continuation of sendMessage
onClose(h, t, code) ==
    LET h0 == flushLineBuffer(h, t)
        h1 == cleanup(h0, t)
        h2 == [h1 EXCEPT !.objs[h1.turns[t].sess].process = 0]
        h3 == IF h2.turns[t].isStreaming
              THEN [h2 EXCEPT !.turns[t].isStreaming = FALSE,
                              !.turns[t].effects = Append(@, "message"),
                              !.turns[t].finalEmits = @ + 1]
              ELSE h2
    IN IF Threw(h, h0, t) THEN h0
       ELSE Settle(h3, t, IF code = 0 THEN "none" ELSE "Claude process failed")

\* the process exits: 'exit' clears the force-kill timer, 'close' runs onClose
\* if it is still attached
ProcExit(t, code) ==
    /\ turns[t].proc = "alive"
    /\ LET h0 == [St EXCEPT !.turns[t].proc = "exited", !.turns[t].timer = FALSE]
           h == IF turns[t].attached THEN onClose(h0, t, code) ELSE h0
       IN /\ objs' = h.objs
          /\ turns' = h.turns
    /\ UNCHANGED <<sessions, otherSessions, knownWorktreePaths, claudePath, last>>

\* onError followed by the continuation of sendMessage
onError(h, t) ==
    LET h1 == cleanup(h, t)
        h2 == [h1 EXCEPT !.objs[h1.turns[t].sess].process = 0]
    IN Settle(h2, t, "Failed to run Claude")

ProcError(t) ==
    /\ turns[t].proc = "failed"
    /\ turns[t].attached
    /\ LET h == onError(St, t) IN
       /\ objs' = h.objs
       /\ turns' = h.turns
    /\ UNCHANGED <<sessions, otherSessions, knownWorktreePaths, claudePath, last>>

\* the 3 s timer of abortSession fires
KillTimeout(t) ==
    /\ turns[t].timer
    /\ turns' = [turns EXCEPT ![t] = [(IF ~@.killed THEN kill(@, "SIGKILL") ELSE @)
                                       EXCEPT !.timer = FALSE]]
    /\ UNCHANGED <<sessions, otherSessions, objs, knownWorktreePaths, claudePath, last>>

\* ---- environment: registry and file system ----

\* getRepoRoot / listWorktrees / addWorktree add a path git reported
TrackWorktreePath(p) ==
    /\ p \notin knownWorktreePaths
    /\ knownWorktreePaths' = knownWorktreePaths \cup {p}
    /\ UNCHANGED <<sessions, otherSessions, objs, turns, claudePath, last>>

untrackWorktreePath(known, p) ==
    LET validPath == validatePath(p) IN
    IF validPath # "null" THEN known \ {validPath} ELSE known

UntrackWorktreePath(p) ==
    /\ untrackWorktreePath(knownWorktreePaths, p) # knownWorktreePaths
    /\ knownWorktreePaths' = untrackWorktreePath(knownWorktreePaths, p)
    /\ UNCHANGED <<sessions, otherSessions, objs, turns, claudePath, last>>

TurnIds == 1..Len(turns)

\* the orchestrator for the ids ws, called with the arguments cwds and prompts
NextOn(ws, cwds, prompts) ==
    \/ \E w \in ws, cwd \in cwds : CreateSession(w, cwd)
    \/ \E w \in ws, m \in prompts, tr \in BOOLEAN, sp \in BOOLEAN : SendMessage(w, m, tr, sp)
    \/ \E w \in ws : AbortSession(w)
    \/ \E w \in ws : RemoveSession(w)
    \/ \E t \in TurnIds, k \in LineKinds : OnStdout(t, k)
    \/ \E t \in TurnIds : OnStderrAuth(t)
    \/ \E t \in TurnIds, code \in {0, 1} : ProcExit(t, code)
    \/ \E t \in TurnIds : ProcError(t)
    \/ \E t \in TurnIds : KillTimeout(t)
    \/ \E p \in GitPaths : TrackWorktreePath(p)
    \/ \E p \in cwds : UntrackWorktreePath(p)

\* one session id, well-formed arguments
Next == NextOn({"w1"}, {"/repo-a"}, {"hi"})

Spec == Init /\ [][Next]_vars

\* the session map and the registry: both ids, every kind of directory argument,
\* and any number of sessions under further ids
NextReg ==
    \/ \E w \in Ids, cwd \in RawPaths : CreateSession(w, cwd)
    \/ \E e \in BOOLEAN, cwd \in RawPaths : CreateSessionOther(e, cwd)
    \/ \E w \in Ids : RemoveSession(w)
    \/ RemoveSessionOther
    \/ \E w \in Ids : SendMessage(w, "hi", TRUE, TRUE)
    \/ \E t \in TurnIds : ProcExit(t, 0)
    \/ \E p \in GitPaths : TrackWorktreePath(p)
    \/ \E p \in RawPaths : UntrackWorktreePath(p)

SpecReg == Init /\ [][NextReg]_vars

\* the public calls with every kind of argument, starting with no session or
\* with all but one of the allowed sessions stored under further ids
ApiPaths == {"", "/repo-a", "/other"}

InitApi ==
    /\ sessions = [w \in Ids |-> 0]
    /\ otherSessions \in {0, MAX_SESSIONS - 1}
    /\ objs = <<>>
    /\ turns = <<>>
    /\ knownWorktreePaths = {}
    /\ claudePath = ""
    /\ last = Ret("init", "", "ok", FALSE)

NextApi ==
    \/ \E w \in IdInputs, cwd \in ApiPaths : CreateSession(w, cwd)
    \/ \E w \in IdInputs, m \in Prompts, tr \in BOOLEAN : SendMessage(w, m, tr, TRUE)
    \/ \E w \in IdInputs : GetSessionStatus(w)
    \/ \E t \in TurnIds, code \in {0, 1} : ProcExit(t, code)
    \/ \E p \in GitPaths : TrackWorktreePath(p)
    \/ \E p \in GitPaths : UntrackWorktreePath(p)

SpecApi == InitApi /\ [][NextApi]_vars

\* one session whose turns report result events
NextUsage ==
    \/ CreateSession("w1", "/repo-a")
    \/ SendMessage("w1", "hi", TRUE, TRUE)
    \/ \E t \in TurnIds, ev \in ResultEvents : OnStdoutResult(t, ev)
    \/ \E t \in TurnIds : OnStdout(t, "text")
    \/ \E t \in TurnIds : ProcExit(t, 0)
    \/ \E p \in GitPaths : TrackWorktreePath(p)

SpecUsage == Init /\ [][NextUsage]_vars

\* one session whose turns receive raw stdout chunks
NextStream ==
    \/ CreateSession("w1", "/repo-a")
    \/ SendMessage("w1", "hi", TRUE, TRUE)
    \/ \E t \in TurnIds, data \in Chunks : OnStdoutData(t, data)
    \/ \E t \in TurnIds : ProcExit(t, 0)
    \/ \E p \in GitPaths : TrackWorktreePath(p)

SpecStream == Init /\ [][NextStream]_vars

\* one session whose turns write an auth failure to stderr, stdout chunks,
\* and exit with either code
NextAuth ==
    \/ CreateSession("w1", "/repo-a")
    \/ SendMessage("w1", "hi", TRUE, TRUE)
    \/ \E t \in TurnIds : OnStderrAuth(t)
    \/ \E t \in TurnIds, data \in Chunks : OnStdoutData(t, data)
    \/ \E t \in TurnIds, code \in {0, 1} : ProcExit(t, code)
    \/ \E p \in GitPaths : TrackWorktreePath(p)

SpecAuth == Init /\ [][NextAuth]_vars

\* stdout chunks with JSON documents that are not event objects
BadChunks ==
    { <<"{", "A", "t", "}", "\n">>,
      <<"5", "\n">>,
      <<"{", "S", "n", "}", "\n">>,
      <<"null", "\n", "{", "A", "t", "}", "\n">>,
      <<"{", "A", "t", "n", "t", "}", "\n">>,
      <<"null">> }

\* one session whose turns read such chunks
NextDecode ==
    \/ CreateSession("w1", "/repo-a")
    \/ SendMessage("w1", "hi", TRUE, TRUE)
    \/ \E t \in TurnIds, data \in BadChunks : OnStdoutData(t, data)
    \/ \E t \in TurnIds, code \in {0, 1} : ProcExit(t, code)
    \/ \E p \in GitPaths : TrackWorktreePath(p)

SpecDecode == Init /\ [][NextDecode]_vars

\* one session whose turns are spawned under every host environment
NextEnv ==
    \/ CreateSession("w1", "/repo-a")
    \/ \E host \in HostEnvs : SendMessageEnv("w1", "hi", TRUE, TRUE, host)
    \/ \E t \in TurnIds : ProcExit(t, 0)
    \/ \E p \in GitPaths : TrackWorktreePath(p)

SpecEnv == Init /\ [][NextEnv]_vars

\* two sessions side by side.  The runs start with both sessions created and
\* idle, with a turn in flight in the first, or with a turn in flight in both.
sendMessageOn(st, w) ==
    LET o == st.sessions[w]
        t == Len(st.turns) + 1
    IN SpawnAgent(AcceptPrompt(st, o, t), o, t, TRUE, DefaultEnv, Candidates[1],
                  {Candidates[1]})

PairIdle ==
    [sessions |-> [w \in Ids |-> IF w = "w1" THEN 1 ELSE 2],
     objs |-> <<FreshSession("w1", "/repo-a"), FreshSession("w2", "/repo-a")>>,
     turns |-> <<>>]

PairStates ==
    {PairIdle, sendMessageOn(PairIdle, "w1"),
     sendMessageOn(sendMessageOn(PairIdle, "w1"), "w2")}

InitPair ==
    \E st \in PairStates :
        /\ sessions = st.sessions
        /\ objs = st.objs
        /\ turns = st.turns
        /\ otherSessions = 0
        /\ knownWorktreePaths = {"/repo-a"}
        /\ claudePath = (IF st.turns # <<>> THEN Candidates[1] ELSE "")
        /\ last = IF st.turns = <<>> THEN Ret("createSession", "w2", "ok", FALSE)
                  ELSE Ret("sendMessage", objs[st.turns[Len(st.turns)].sess].worktreeId,
                           "pending", TRUE)

\* stdout chunks that leave and complete partial lines
PairChunks ==
    { <<"{", "A", "u", "C3">>,
      <<"{", "U", "o", "}">>,
      <<"\n">> }

NextPair ==
    \/ \E w \in Ids : CreateSession(w, "/repo-a")
    \/ \E w \in Ids : SendMessage(w, "hi", TRUE, TRUE)
    \/ \E w \in Ids : AbortSession(w)
    \/ \E w \in Ids : RemoveSession(w)
    \/ \E t \in TurnIds, data \in PairChunks : OnStdoutData(t, data)
    \/ \E t \in TurnIds : OnStderrAuth(t)
    \/ \E t \in TurnIds : ProcExit(t, 1)

SpecPair == InitPair /\ [][NextPair]_vars

\* one session whose turns write chunks to stderr
NextStderr ==
    \/ CreateSession("w1", "/repo-a")
    \/ SendMessage("w1", "hi", TRUE, TRUE)
    \/ \E t \in TurnIds, errText \in StderrChunks : OnStderrData(t, errText)
    \/ \E t \in TurnIds, code \in {0, 1} : ProcExit(t, code)
    \/ \E p \in GitPaths : TrackWorktreePath(p)

SpecStderr == Init /\ [][NextStderr]_vars

\* one session whose turns are started under every set of trusted binaries
NextBin ==
    \/ CreateSession("w1", "/repo-a")
    \/ \E safe \in SUBSET {Candidates[i] : i \in 1..3}, host \in {NoEnv, DefaultEnv} :
          SendMessageBin("w1", "hi", safe, TRUE, host)
    \/ \E t \in TurnIds : ProcExit(t, 0)
    \/ \E p \in GitPaths : TrackWorktreePath(p)

SpecBin == Init /\ [][NextBin]_vars

\* one session whose turns report tool calls and tool results
NextTools ==
    \/ CreateSession("w1", "/repo-a")
    \/ SendMessage("w1", "hi", TRUE, TRUE)
    \/ \E t \in TurnIds, ev \in ToolEvents : OnStdoutEvent(t, ev)
    \/ \E t \in TurnIds : ProcExit(t, 0)
    \/ \E p \in GitPaths : TrackWorktreePath(p)

SpecTools == Init /\ [][NextTools]_vars

\* ---- properties ----

\* the worktreeId a turn was sent for
WidOf(t) == objs[turns[t].sess].worktreeId

\* the sendMessage call of turn t returns in this step
Returns(t) ==
    /\ t \in 1..Len(turns')
    /\ turns'[t].pc = "returned"
    /\ (t \in TurnIds => turns[t].pc = "awaiting")

\* C1: whenever a sendMessage call returns (turn succeeded, non-zero exit,
\* 'error' event, or no agent binary), the session it ran on has
\* isProcessing = FALSE and the assistant Message of that call has
\* isStreaming = FALSE.
C1_ReturnLeavesTurnFinal ==
    [][\A t \in 1..MaxCalls :
          Returns(t) => /\ ~objs'[turns'[t].sess].isProcessing
                        /\ ~turns'[t].isStreaming]_vars

\* C2: for every worktreeId at most one spawned child process is alive.
C2_OneLiveProcessPerId ==
    \A w \in Ids :
        Cardinality({t \in TurnIds : WidOf(t) = w /\ turns[t].proc = "alive"}) <= 1

\* a prompt is in process: accepted, not returned, its listeners still attached
InProcess(t) == turns[t].pc = "awaiting" /\ turns[t].attached

\* this step is a sendMessage(w) rejected with 'Agent is busy'
BusyRejection(w) ==
    /\ Has(w)
    /\ objs[sessions[w]].isProcessing
    /\ last' # last
    /\ last' = Ret("sendMessage", w, "Agent is busy", TRUE)

\* C3: a sendMessage for a session whose isProcessing is true is rejected with
\* 'Agent is busy' and changes nothing: no step appends a message to, or starts
\* a turn on, a session object that is processing, and at no time are two
\* prompts in process for one worktreeId.
C3_BusySessionRejects ==
    [][/\ \A w \in Ids : BusyRejection(w) =>
              UNCHANGED <<sessions, otherSessions, objs, turns, knownWorktreePaths, claudePath>>
       /\ \A o \in 1..Len(objs) : objs[o].isProcessing =>
              /\ objs'[o].messages = objs[o].messages
              /\ \A t \in (1..Len(turns')) \ TurnIds : turns'[t].sess # o
       /\ \A w \in Ids :
              Cardinality({t \in 1..Len(turns') :
                              /\ objs'[turns'[t].sess].worktreeId = w
                              /\ turns'[t].pc = "awaiting"
                              /\ turns'[t].attached}) <= 1]_vars

C3_Witness ==
    /\ last = Ret("sendMessage", "w1", "Agent is busy", TRUE)
    /\ Has("w1")
    /\ objs[sessions["w1"]].isProcessing
    /\ \E t \in TurnIds : InProcess(t) /\ turns[t].sess = sessions["w1"]

\* C4: every accepted sendMessage returns, and its assistant Message stops
\* streaming, once its child process has exited -- also when the session was
\* aborted, removed or re-created while the turn was in flight.
C4_ExitedTurnHasReturned ==
    \A t \in TurnIds :
        turns[t].proc = "exited" => turns[t].pc = "returned" /\ ~turns[t].isStreaming

\* this step is abortSession(w) acting on a session that is processing turn t
AbortsTurn(w, t) ==
    /\ Has(w)
    /\ objs[sessions[w]].isProcessing
    /\ objs[sessions[w]].currentMessageId = t
    /\ last' # last
    /\ last' = Ret("abortSession", w, "ok", Has(w))

\* C5: abortSession during a processing turn rolls nothing back (the text
\* appended to the assistant Message and the effects emitted stay) and marks
\* the aborted turn's assistant Message non-streaming.
C5_AbortKeepsTextAndStopsStreaming ==
    [][\A w \in Ids, t \in TurnIds :
          AbortsTurn(w, t) => /\ turns'[t].content = turns[t].content
                              /\ turns'[t].effects = turns[t].effects
                              /\ objs'[sessions[w]].messages = objs[sessions[w]].messages
                              /\ ~turns'[t].isStreaming]_vars

\* C6: abortSession is idempotent: in every reachable state, aborting an id
\* twice leaves the same sessions, process handles, messages, usage, errors,
\* timers and signals sent as aborting it once.
C6_AbortIdempotent ==
    \A w \in Ids : abortSession(abortSession(St, w), w) = abortSession(St, w)

C6_Witness ==
    /\ last = Ret("abortSession", "w1", "ok", TRUE)
    /\ \E t \in TurnIds :
          /\ turns[t].sess = sessions["w1"]
          /\ turns[t].proc = "alive"
          /\ turns[t].signals = <<"SIGTERM">>
          /\ turns[t].content # <<>>

\* the canonical form of cwd is in the registry
Registered(cwd) == cwd # "" /\ resolveRealPath(cwd) \in knownWorktreePaths

\* C7: the number of sessions never exceeds MAX_SESSIONS; at the cap,
\* createSession with a registered directory fails with the capacity error
\* for an id without a session and succeeds, without growing the map, for an
\* id that has one.
C7_SessionCap ==
    /\ SessionsSize <= MAX_SESSIONS
    /\ (last.op = "createSession" /\ last.res = "Maximum sessions reached")
          => SessionsSize = MAX_SESSIONS /\ ~last.had
    /\ (last.op = "createSession" /\ last.res = "ok" /\ last.had)
          => (last.w \in Ids => Has(last.w))
    /\ SessionsSize = MAX_SESSIONS =>
          \A w \in Ids, cwd \in RawPaths : Registered(cwd) =>
              createSessionResult(w, cwd, Has(w)) =
                  IF Has(w) THEN "ok" ELSE "Maximum sessions reached"

C7_Witness ==
    /\ last = Ret("createSession", "w2", "Maximum sessions reached", FALSE)
    /\ SessionsSize = MAX_SESSIONS
    /\ Has("w1")
    /\ ~Has("w2")

\* a session object is created in this step
NewObjs == (1..Len(objs')) \ (1..Len(objs))

\* C8: createSession with a directory the registry does not know fails and
\* changes nothing: every session object created has a registered working
\* directory, the count of further sessions grows only with a registered
\* directory, and the rejected call leaves the map and every session as they were.
C8_UnknownDirectoryRejected ==
    [][/\ \A o \in NewObjs : resolveRealPath(objs'[o].workingDirectory) \in knownWorktreePaths
       /\ otherSessions' > otherSessions => knownWorktreePaths # {}
       /\ (last' # last /\ last'.op = "createSession"
                        /\ last'.res = "Working directory is not a known worktree")
             => UNCHANGED <<sessions, otherSessions, objs, turns>>]_vars

C8_Witness ==
    /\ last = Ret("createSession", "w1", "Working directory is not a known worktree", TRUE)
    /\ Has("w1")
    /\ Has("w2")
    /\ objs[sessions["w1"]].messages # <<>>

\* what callers can observe of a program state: the session stored under each
\* id, and the turns
View(st) ==
    [byId  |-> [w \in Ids |-> IF st.sessions[w] = 0 THEN <<>> ELSE <<st.objs[st.sessions[w]]>>],
     turns |-> st.turns]

\* the session object o has been aborted between this state and the next
AbortedInStep(o) ==
    /\ objs'[o].process = 0
    /\ ~objs'[o].isProcessing
    /\ objs'[o].currentMessageId = 0
    /\ objs'[o].eventCleanup = 0
    /\ \A t \in TurnIds : turns[t].sess = o =>
          /\ ~turns'[t].attached
          /\ (objs[o].process = t /\ turns[t].proc = "alive")
                => turns'[t].signals = Append(turns[t].signals, "SIGTERM")

\* C9: createSession on an id that has a session aborts the old session (its
\* process is signalled, its listeners are detached) and stores a fresh one:
\* no messages, zeroed usage, not processing, no process, no current message,
\* no error; doing it twice with the same arguments gives the same as once.
C9_RecreateReplaces ==
    [][/\ \A o \in NewObjs :
            LET w == objs'[o].worktreeId IN
            /\ sessions'[w] = o
            /\ objs'[o] = [worktreeId |-> w,
                           workingDirectory |-> objs'[o].workingDirectory,
                           process |-> 0, isProcessing |-> FALSE, messages |-> <<>>,
                           currentMessageId |-> 0, error |-> "none", eventCleanup |-> 0,
                           usage |-> [totalCostUsd |-> 0, inputTokens |-> 0, outputTokens |-> 0,
                                      cacheCreationInputTokens |-> 0, cacheReadInputTokens |-> 0,
                                      totalTurns |-> 0, lastDurationMs |-> 0]]
            /\ Has(w) => AbortedInStep(sessions[w])
       /\ \A w \in Ids, cwd \in RawPaths : Registered(cwd) =>
            View(createSessionOn(createSessionOn(St, w, cwd), w, cwd))
                = View(createSessionOn(St, w, cwd))]_vars

C9_Witness ==
    /\ last = Ret("createSession", "w1", "ok", TRUE)
    /\ Len(objs) = 2
    /\ sessions["w1"] = 2
    /\ objs[1].messages # <<>>
    /\ objs[1].usage # objs[2].usage
    /\ \E t \in TurnIds : /\ turns[t].sess = 1
                          /\ turns[t].proc = "alive"
                          /\ turns[t].signals = <<"SIGTERM">>

\* the session object o is not stored under any id
Unmapped(o) == \A w \in Ids : sessions[w] # o

\* C10: removeSession signals the session's process and deletes the entry;
\* afterwards the id behaves as one that never had a session (status
\* inactive, sendMessage 'Session not found', abortSession a no-op) and the
\* removed session emits no further effect and is not modified again.
C10_RemovedSessionIsGone ==
    [][/\ \A w \in Ids : (Has(w) /\ ~Has(w)') => AbortedInStep(sessions[w])
       /\ \A w \in Ids : ~Has(w) =>
             /\ getSessionStatus(w) = [isActive |-> FALSE, isProcessing |-> FALSE, error |-> "none"]
             /\ sendMessageResult(w, "hi") = "Session not found"
             /\ abortSession(St, w) = St
       /\ \A o \in 1..Len(objs) : Unmapped(o) =>
             /\ objs'[o] = objs[o]
             /\ \A t \in TurnIds : turns[t].sess = o =>
                   /\ turns'[t].effects = turns[t].effects
                   /\ turns'[t].content = turns[t].content
                   /\ turns'[t].isStreaming = turns[t].isStreaming
                   /\ turns'[t].pc = turns[t].pc]_vars

C10_Witness ==
    /\ last = Ret("sendMessage", "w1", "Session not found", FALSE)
    /\ ~Has("w1")
    /\ Len(objs) = 1
    /\ \E t \in TurnIds : /\ turns[t].sess = 1
                          /\ turns[t].signals = <<"SIGTERM">>
                          /\ turns[t].proc = "exited"
                          /\ turns[t].content # <<>>

\* this step is a getSessionStatus call
StatusCall == last' # last /\ last'.op = "getSessionStatus"

\* C11: getSessionStatus changes no state: for an unknown id it returns
\* {isActive: false, isProcessing: false} without an error and without creating
\* a session; for a known id it returns isActive true with the session's
\* current isProcessing and error.
C11_StatusIsPure ==
    [][StatusCall =>
          /\ UNCHANGED <<sessions, otherSessions, objs, turns, knownWorktreePaths, claudePath>>
          /\ last'.res = "ok"
          /\ last'.status =
                IF last'.w \in Ids /\ sessions[last'.w] # 0
                THEN [isActive |-> TRUE,
                      isProcessing |-> objs[sessions[last'.w]].isProcessing,
                      error |-> objs[sessions[last'.w]].error]
                ELSE [isActive |-> FALSE, isProcessing |-> FALSE, error |-> "none"]]_vars

C11_Witness ==
    /\ last.op = "getSessionStatus"
    /\ last.w = "w1"
    /\ last.status = [isActive |-> TRUE, isProcessing |-> TRUE, error |-> "Claude process failed"]
    /\ ~Has("w2")

\* this step is a createSession or sendMessage call that failed validation
ValidationFailure ==
    /\ last' # last
    /\ last'.op \in {"createSession", "sendMessage"}
    /\ last'.res \notin {"ok", "pending"}

\* C12: every validation failure of createSession (empty id, invalid
\* directory, capacity) and of sendMessage (empty id, empty text, text longer
\* than the maximum prompt length, unknown session, busy session) is reported
\* to the caller and leaves the session map and every session's fields
\* unchanged, with no process spawned and no event emitted.
C12_ValidationFailuresChangeNothing ==
    [][/\ ValidationFailure =>
             UNCHANGED <<sessions, otherSessions, objs, turns, knownWorktreePaths, claudePath>>
       /\ \A w \in IdInputs, cwd \in ApiPaths :
             (w = "" \/ cwd = "" \/ (SessionsSize >= MAX_SESSIONS /\ ~Has(w)))
                => createSessionResult(w, cwd, Has(w)) # "ok"
       /\ \A w \in IdInputs, m \in Prompts :
             (w = "" \/ m \in {"", "TOOLONG"} \/ ~Has(w) \/ objs[sessions[w]].isProcessing)
                => sendMessageResult(w, m) # "accepted"
       /\ Len(objs') > Len(objs) => last'.op = "createSession" /\ last'.res = "ok"
       /\ Len(turns') > Len(turns) =>
             last'.op = "sendMessage" /\ last'.res \in {"ok", "pending"}]_vars

C12_Witness ==
    /\ last = Ret("createSession", "w2", "Maximum sessions reached", FALSE)
    /\ SessionsSize = MAX_SESSIONS
    /\ Has("w1")
    /\ objs[sessions["w1"]].isProcessing
    /\ objs[sessions["w1"]].messages # <<>>

\* the turns of sendMessage calls of this step that found no agent binary
NoBinaryTurns == {t \in (1..Len(turns')) \ TurnIds : turns'[t].proc = "none"}

\* C13: when no trusted agent binary can be resolved, sendMessage fails for
\* the caller and performs no session mutation: no user or assistant Message
\* is appended and the session's other fields are unchanged.
C13_NoBinaryFailsWithoutMutation ==
    [][\A t \in NoBinaryTurns :
          /\ last'.op = "sendMessage" /\ last'.res \notin {"ok", "pending"}
          /\ objs'[turns'[t].sess] = objs[turns'[t].sess]]_vars

\* C14: a session's lastError is cleared by the next successful send: when a
\* turn whose process exits 0 returns, getSessionStatus reports no error for
\* its session.
C14_SuccessfulSendClearsError ==
    [][\A t \in TurnIds :
          (/\ Returns(t)
           /\ turns'[t].settled = "resolved"
           /\ sessions[WidOf(t)] = turns[t].sess
           /\ sessions'[WidOf(t)] = turns[t].sess)
             => getSessionStatus(WidOf(t))'.error = "none"]_vars

\* the result events handled for the session object o by the first n turns,
\* in the order they were handled (the turns of one session object run one
\* after the other)
RECURSIVE ResultLog(_, _)
ResultLog(o, n) ==
    IF n = 0 THEN <<>>
    ELSE ResultLog(o, n - 1) \o (IF turns[n].sess = o THEN turns[n].results ELSE <<>>)

RECURSIVE SumSeq(_)
SumSeq(q) == IF q = <<>> THEN 0 ELSE Head(q) + SumSeq(Tail(q))

\* the value a result event reports in the field f of its usage object
ReportedUsage(ev, f) ==
    IF ev.usage = <<>> THEN 0
    ELSE IF ev.usage[1][f] = <<>> THEN 0 ELSE ev.usage[1][f][1]

\* the value a result event reports in its top-level field f
Reported(ev, f) == IF ev[f] = <<>> THEN 0 ELSE ev[f][1]

TotalUsage(log, f) == SumSeq([i \in 1..Len(log) |-> ReportedUsage(log[i], f)])
Total(log, f) == SumSeq([i \in 1..Len(log) |-> Reported(log[i], f)])

\* the duration of the most recent result event that carried one
RECURSIVE LastDuration(_)
LastDuration(log) ==
    IF log = <<>> THEN 0
    ELSE IF log[Len(log)].duration_ms # <<>> THEN log[Len(log)].duration_ms[1]
    ELSE LastDuration(SubSeq(log, 1, Len(log) - 1))

\* C15: across any sequence of turns in one session, inputTokens,
\* outputTokens, cacheCreationInputTokens, cacheReadInputTokens and totalTurns
\* each equal the sum of the values reported by the turns' result events
\* (absent fields counting as 0), and lastDurationMs equals the duration of
\* the most recent result event that carried one.
C15_UsageIsSumOfResults ==
    \A o \in 1..Len(objs) :
        LET log == ResultLog(o, Len(turns))
            u == objs[o].usage
        IN /\ u.inputTokens = TotalUsage(log, "input_tokens")
           /\ u.outputTokens = TotalUsage(log, "output_tokens")
           /\ u.cacheCreationInputTokens = TotalUsage(log, "cache_creation_input_tokens")
           /\ u.cacheReadInputTokens = TotalUsage(log, "cache_read_input_tokens")
           /\ u.totalTurns = Total(log, "num_turns")
           /\ u.lastDurationMs = LastDuration(log)

C15_Witness ==
    /\ Len(turns) = 2
    /\ turns[1].sess = 1 /\ turns[2].sess = 1
    /\ Len(turns[1].results) = 1 /\ Len(turns[2].results) = 1
    /\ turns[1].pc = "returned"
    /\ objs[1].usage.inputTokens = 13
    /\ objs[1].usage.outputTokens = 12
    /\ objs[1].usage.cacheCreationInputTokens = 1
    /\ objs[1].usage.totalTurns = 3
    /\ objs[1].usage.lastDurationMs = 4

\* every turn has handled at most one result event
OneResultPerTurn == \A t \in TurnIds : Len(turns[t].results) <= 1

\* C16: totalCostUsd accumulates additively: after N turns with one result
\* event each it equals the sum of the total_cost_usd values reported by the
\* N result events.
C16_CostIsSumOfResults ==
    OneResultPerTurn =>
        \A o \in 1..Len(objs) :
            objs[o].usage.totalCostUsd = Total(ResultLog(o, Len(turns)), "total_cost_usd")

CumulativeFields ==
    {"totalCostUsd", "inputTokens", "outputTokens", "cacheCreationInputTokens",
     "cacheReadInputTokens", "totalTurns"}

\* C17: within a session's lifetime every cumulative UsageStats field is
\* monotonically non-decreasing across turns, for every sequence of result
\* events (one per turn).
C17_UsageNeverDecreases ==
    [][OneResultPerTurn' =>
          \A o \in 1..Len(objs), f \in CumulativeFields :
              objs'[o].usage[f] >= objs[o].usage[f]]_vars

\* valid event lines with their newline: an assistant record with a text
\* block, one with a tool_use block and the text e-acute, a result event, a
\* user record with a tool_result block
ValidLines ==
    { <<"{", "A", "t", "}", "\n">>,
      <<"{", "A", "u", "C3", "A9", "}", "\n">>,
      <<"{", "R", "}", "\n">>,
      <<"{", "U", "o", "}", "\n">> }

\* feed bytes[from..] to onStdout of turn t, as chunks that end after the
\* offsets in cuts and at the end
RECURSIVE FeedCut(_, _, _, _, _, _)
FeedCut(h, t, bytes, cuts, from, i) ==
    IF i = Len(bytes) THEN onStdout(h, t, SubSeq(bytes, from, i))
    ELSE IF i \in cuts
    THEN FeedCut(onStdout(h, t, SubSeq(bytes, from, i)), t, bytes, cuts, i + 1, i + 1)
    ELSE FeedCut(h, t, bytes, cuts, from, i + 1)

\* C18: for every valid event line and every way of splitting it into
\* consecutive chunks (at any offset, any number of chunks), feeding the chunks
\* to the stdout line buffer decodes the same record and produces the same
\* effects as feeding the unsplit line.
C18_ChunkSplitsDecodeAlike ==
    \A t \in TurnIds : Listening(t) =>
        \A line \in ValidLines : \A cuts \in SUBSET (1..(Len(line) - 1)) :
            FeedCut(St, t, line, cuts, 1, 1) = onStdout(St, t, line)

\* inputs of whitespace lines, empty lines and lines that are not JSON; the
\* last one ends in an incomplete line
GarbageInputs ==
    { <<" ", "\n">>,
      <<"\n", "\n">>,
      <<"x", "\n">>,
      <<"{", "A", "t", "t", "\n">>,
      <<"}", " ", "\n", " ", " ", "\n", "t", "\n">>,
      <<"x", "\n", "{", "A">> }

\* C19: for every input consisting only of whitespace lines, empty lines or
\* lines that are not parsable JSON, the decoder emits no effect and leaves the
\* assistant Message and usage unchanged (only the line buffer may change, and
\* flushing it at close changes nothing); decoding continues with the
\* following lines.
C19_GarbageIsSkipped ==
    \A t \in TurnIds : (Listening(t) /\ turns[t].lineBuffer = <<>>) =>
        \A g \in GarbageInputs :
            LET h == onStdout(St, t, g) IN
            /\ h = [St EXCEPT !.turns[t].lineBuffer = h.turns[t].lineBuffer]
            /\ flushLineBuffer(h, t) = h
            /\ g[Len(g)] = "\n" =>
                  \A line \in ValidLines : onStdout(h, t, line) = onStdout(St, t, line)

C19_Witness ==
    \E t \in TurnIds :
        /\ turns[t].received = <<" ", "\n", "x", "\n", "{", "A", "t", "}", "\n">>
        /\ turns[t].nchunks = 2
        /\ turns[t].content = <<"t">>
        /\ turns[t].effects = <<"message", "message">>

\* the effects and the text one line of the stream stands for, by the blocks
\* of its record in list order
LineBlocks(line) ==
    LET str == Trim(line) IN
    IF JsonParses(str) /\ EventType(str) \in {"assistant", "user"}
    THEN LET IsText(b) == b \in TextBlocks
             Emits(b) == IF EventType(str) = "assistant"
                         THEN b \in TextBlocks \cup {"u"} ELSE b = "o"
         IN [text |-> IF EventType(str) = "assistant"
                      THEN SelectSeq(EventBlocks(str), IsText) ELSE <<>>,
             emitting |-> SelectSeq(EventBlocks(str), Emits)]
    ELSE [text |-> <<>>, emitting |-> <<>>]

EffectOfBlock(b) ==
    IF b \in TextBlocks THEN "message" ELSE IF b = "u" THEN "tool" ELSE "tool_done"

LineEffects(line) ==
    IF JsonParses(Trim(line)) /\ EventType(Trim(line)) = "result"
    THEN <<"message", "usage">>
    ELSE [i \in 1..Len(LineBlocks(line).emitting) |-> EffectOfBlock(LineBlocks(line).emitting[i])]

\* the effects and the text a sequence of lines stands for, in stream order
RECURSIVE StreamEffects(_)
StreamEffects(lines) ==
    IF lines = <<>> THEN <<>> ELSE LineEffects(Head(lines)) \o StreamEffects(Tail(lines))

RECURSIVE StreamText(_)
StreamText(lines) ==
    IF lines = <<>> THEN <<>> ELSE LineBlocks(Head(lines)).text \o StreamText(Tail(lines))

\* the lines of the stdout text turn t has handled: the complete lines, and
\* all of them once onClose has run
HandledLines(t) ==
    LET lines == SplitLines(turns[t].received) IN
    IF turns[t].pc = "returned" THEN lines ELSE SubSeq(lines, 1, Len(lines) - 1)

\* C20: effects are emitted strictly in the order of their source lines in
\* the stdout stream: within one chunk left to right, across chunks in arrival
\* order, within one assistant/user record in block order.  The effects of a
\* turn are the user-message effect, then the effects of the handled lines in
\* stream order, then the closing effect if no result event arrived.
C20_EffectsInStreamOrder ==
    \A t \in TurnIds :
        /\ turns[t].content = StreamText(HandledLines(t))
        /\ turns[t].effects =
              <<"message">> \o StreamEffects(HandledLines(t))
                 \o (IF turns[t].pc = "returned" /\ turns[t].results = <<>>
                     THEN <<"message">> ELSE <<>>)

C20_Witness ==
    \E t \in TurnIds :
        /\ turns[t].nchunks = 2
        /\ turns[t].content = <<"t", "eacute">>
        /\ turns[t].effects = <<"message", "message", "message", "message", "usage">>
        /\ turns[t].pc = "returned"

\* onClose of turn t runs in this step
Closes(t) ==
    /\ t \in TurnIds
    /\ turns[t].attached
    /\ turns[t].proc = "alive"
    /\ turns'[t].proc = "exited"

\* the line is a result event
IsResultLine(line) == JsonParses(Trim(line)) /\ EventType(Trim(line)) = "result"

\* C21: on stream end, a residual line buffer that is non-empty after trimming
\* is decoded as exactly one final line, before the safety-net finalization and
\* before sendMessage returns; an empty or whitespace buffer decodes nothing.
\* No line written before the exit is lost, with or without a final newline.
C21_ResidualLineFlushedAtClose ==
    [][\A t \in TurnIds : Closes(t) =>
          LET residual == turns[t].lineBuffer
              safetyNet == turns[t].isStreaming /\ ~IsResultLine(residual)
          IN /\ turns'[t].pc = "returned"
             /\ turns'[t].content = turns[t].content \o LineBlocks(residual).text
             /\ turns'[t].effects =
                   turns[t].effects \o LineEffects(residual)
                      \o (IF safetyNet THEN <<"message">> ELSE <<>>)
             /\ Len(turns'[t].results) =
                   Len(turns[t].results) + (IF IsResultLine(residual) THEN 1 ELSE 0)
             /\ Trim(residual) = <<>> =>
                   /\ turns'[t].content = turns[t].content
                   /\ turns'[t].results = turns[t].results
                   /\ turns'[t].effects \in
                         {turns[t].effects, Append(turns[t].effects, "message")}
             /\ turns'[t].content = StreamText(SplitLines(turns'[t].received))]_vars

C21_Witness ==
    \E t \in TurnIds :
        /\ turns[t].pc = "returned"
        /\ turns[t].received = <<"{", "A", "t", "}", "\n", "{", "R", "}", " ">>
        /\ turns[t].content = <<"t">>
        /\ Len(turns[t].results) = 1
        /\ turns[t].effects = <<"message", "message", "message", "usage">>

\* C22: in every turn, whatever the stream contains (one or several result
\* events, events after the result, an auth failure on stderr, no result at
\* all), exactly one message event carrying isStreaming = false is emitted:
\* never more than one, and one once the turn has returned.
C22_FinalizedExactlyOnce ==
    \A t \in TurnIds :
        /\ turns[t].finalEmits <= 1
        /\ turns[t].pc = "returned" => turns[t].finalEmits = 1 /\ ~turns[t].isStreaming

\* turn t handles a result event in this step
HandlesResult(t) == t \in TurnIds /\ Len(turns'[t].results) = Len(turns[t].results) + 1

\* C23: a result event with subtype success leaves the assistant Message's
\* content exactly as accumulated from earlier assistant events; one with
\* subtype error appends the event's result text; in both cases isStreaming
\* becomes false.
C23_ResultKeepsOrAppendsText ==
    [][\A t \in TurnIds : HandlesResult(t) =>
          LET ev == turns'[t].results[Len(turns'[t].results)] IN
          /\ ev.subtype = "success" => turns'[t].content = turns[t].content
          /\ ev.subtype = "error" => turns'[t].content = turns[t].content \o ev.result
          /\ ~turns'[t].isStreaming]_vars

C23_Witness ==
    \E t \in TurnIds :
        /\ Len(turns[t].results) = 2
        /\ turns[t].results[1].subtype = "success"
        /\ turns[t].results[1].result = <<"done">>
        /\ turns[t].results[2].subtype = "error"
        /\ turns[t].content = <<"t", "err">>
        /\ ~turns[t].isStreaming

\* handleAgentToolCall of the renderer store: a ToolCall replaces the stored
\* one with the same id, else it is appended
handleAgentToolCall(toolCalls, toolCall) ==
    IF \E i \in 1..Len(toolCalls) : toolCalls[i].id = toolCall.id
    THEN LET existingIndex ==
                 CHOOSE i \in 1..Len(toolCalls) :
                     /\ toolCalls[i].id = toolCall.id
                     /\ \A j \in 1..(i - 1) : toolCalls[j].id # toolCall.id
         IN [toolCalls EXCEPT ![existingIndex] = toolCall]
    ELSE Append(toolCalls, toolCall)

\* the store's toolCalls after the ToolCall events in emitted, in order
RECURSIVE StoreToolCalls(_)
StoreToolCalls(emitted) ==
    IF emitted = <<>> THEN <<>>
    ELSE handleAgentToolCall(StoreToolCalls(SubSeq(emitted, 1, Len(emitted) - 1)),
                             emitted[Len(emitted)])

\* the output the claim gives a tool_result content, as a sequence of pieces:
\* the string, or the text sub-blocks in order with a newline between
\* neighbours, else nothing
ExpectedOutput(content) ==
    IF content.kind = "string" THEN (IF content.text = "" THEN <<>> ELSE <<content.text>>)
    ELSE IF content.kind = "array"
    THEN LET IsTextItem(c) == c.type = "text" /\ c.text # <<>>
             texts == SelectSeq(content.items, IsTextItem)
         IN [i \in 1..(2 * Len(texts) - 1) |->
                IF i % 2 = 1 THEN texts[(i + 1) \div 2].text[1] ELSE "\n"]
    ELSE <<>>

\* turn t handles the record ev in this step
HandlesEvent(t, ev) ==
    /\ t \in TurnIds
    /\ turns'[t].handled = Append(turns[t].handled, ev)

\* C24: a tool_result block with tool_use_id i gives a ToolCall with id i
\* verbatim and status completed whose output is the plain string content, or
\* for array content the text of the sub-blocks of type text joined with
\* newlines in order; unknown or empty content gives empty output.  After a
\* tool_use with the same id, the store holds that completed ToolCall for the id.
C24_ToolResultBecomesCompletedCall ==
    [][\A t \in TurnIds, ev \in ToolEvents : (HandlesEvent(t, ev) /\ ev.type = "user") =>
          LET HasId(b) == b.type = "tool_result" /\ b.tool_use_id \notin {<<>>, <<"">>}
              results == SelectSeq(ev.blocks, HasId)
              old == turns[t].toolCalls
              new == SubSeq(turns'[t].toolCalls, Len(old) + 1, Len(turns'[t].toolCalls))
          IN /\ SubSeq(turns'[t].toolCalls, 1, Len(old)) = old
             /\ Len(new) = Len(results)
             /\ \A i \in 1..Len(new) :
                   /\ new[i].id = results[i].tool_use_id[1]
                   /\ new[i].status = "completed"
                   /\ new[i].output = ExpectedOutput(results[i].content)
                   /\ (\E j \in 1..Len(old) : old[j].id = new[i].id /\ old[j].status = "running")
                         => \E k \in 1..Len(StoreToolCalls(turns'[t].toolCalls)) :
                               LET c == StoreToolCalls(turns'[t].toolCalls)[k] IN
                               /\ c.id = new[i].id
                               /\ c.status = "completed"
                               /\ \E m \in i..Len(new) :
                                     /\ c = new[m]
                                     /\ \A n \in (m + 1)..Len(new) : new[n].id # c.id]_vars

C24_Witness ==
    \E t \in TurnIds :
        turns[t].toolCalls =
            << [id |-> "t1", name |-> "Bash", input |-> "{}", status |-> "running",
                output |-> <<>>],
               [id |-> "t1", name |-> "", input |-> "{}", status |-> "completed",
                output |-> <<"a", "\n", "b">>] >>

\* C25: each ToolCall id goes from running to a terminal status at most once,
\* and a tool_result whose id is unknown (no earlier tool_use with that id) or
\* already completed is ignored: it produces no ToolCall effect, and the store
\* holds no ToolCall for an id that was never running.
C25_ToolResultOnlyForRunningCall ==
    \A t \in TurnIds :
        /\ \A i \in 1..Len(turns[t].toolCalls) :
              turns[t].toolCalls[i].status = "completed" =>
                  /\ \E j \in 1..(i - 1) : /\ turns[t].toolCalls[j].id = turns[t].toolCalls[i].id
                                           /\ turns[t].toolCalls[j].status = "running"
                  /\ \A j \in 1..(i - 1) :
                        turns[t].toolCalls[j].id = turns[t].toolCalls[i].id
                            => turns[t].toolCalls[j].status = "running"
        /\ \A k \in 1..Len(StoreToolCalls(turns[t].toolCalls)) :
              \E j \in 1..Len(turns[t].toolCalls) :
                  /\ turns[t].toolCalls[j].id = StoreToolCalls(turns[t].toolCalls)[k].id
                  /\ turns[t].toolCalls[j].status = "running"

\* C26: when accumulated stderr matches an authentication-failure pattern the
\* turn is short-circuited: from then on the assistant Message has the
\* remediation text as its content and isStreaming false, and no later stdout
\* event of the turn changes it.
C26_AuthFailureFixesMessage ==
    \A t \in TurnIds :
        turns[t].stderrAuth => turns[t].content = <<"AUTH">> /\ ~turns[t].isStreaming

\* the number of session-error events among the effects
ErrorEvents(effects) == Cardinality({i \in 1..Len(effects) : effects[i] = "error"})

\* C27: exit code 0 sets no error; a non-zero exit with no recognized auth
\* failure sets lastError to the generic process-failed error and emits exactly
\* one session-error event; a non-zero exit in a turn where an auth failure was
\* recognized is not additionally surfaced as the generic error.  In each case
\* sendMessage returns.
C27_ExitCodeOutcome ==
    [][\A t \in TurnIds : Closes(t) =>
          LET o == turns[t].sess IN
          /\ turns'[t].pc = "returned"
          /\ turns'[t].settled = "resolved" =>
                /\ objs'[o].error = objs[o].error
                /\ ErrorEvents(turns'[t].effects) = ErrorEvents(turns[t].effects)
          /\ (turns'[t].settled = "rejected" /\ ~turns[t].stderrAuth) =>
                /\ objs'[o].error = "Claude process failed"
                /\ ErrorEvents(turns'[t].effects) = ErrorEvents(turns[t].effects) + 1
          /\ (turns'[t].settled = "rejected" /\ turns[t].stderrAuth) =>
                /\ objs'[o].error # "Claude process failed"
                /\ ErrorEvents(turns'[t].effects) = ErrorEvents(turns[t].effects)]_vars

\* C28: abortSession on a session with a live process detaches the stream
\* listeners and sends SIGTERM; if the process has not exited when the 3 s
\* grace period elapses it is sent SIGKILL; once it has exited no signal is
\* sent to it.
C28_TwoPhaseAbort ==
    [][\A t \in TurnIds :
          /\ (~turns[t].timer /\ turns'[t].timer /\ turns[t].proc = "alive") =>
                /\ ~turns'[t].attached
                /\ turns'[t].signals = Append(turns[t].signals, "SIGTERM")
          /\ (turns[t].timer /\ ~turns'[t].timer /\ turns'[t].proc = "alive") =>
                turns'[t].signals = Append(turns[t].signals, "SIGKILL")
          /\ turns[t].proc = "exited" => turns'[t].signals = turns[t].signals]_vars

\* C29: no stdout line, whether it fails to parse or parses to a JSON document
\* that is not an event object, makes an exception escape a listener of the
\* turn, and a turn whose process has exited with its listeners attached has
\* returned from sendMessage.
C29_DecodeFailureNeverEscapes ==
    \A t \in TurnIds :
        /\ turns[t].uncaught = 0
        /\ (turns[t].proc = "exited" /\ turns[t].attached) => turns[t].pc = "returned"

\* C30: for every host environment, the environment passed to the child
\* process has only allow-listed names, each with exactly the host's value;
\* every other host variable is dropped, and every allow-listed variable the
\* host sets to a non-empty value is passed.
C30_ChildEnvIsAllowListed ==
    \A t \in TurnIds : turns[t].proc # "none" =>
        LET host == turns[t].hostEnv
            env == turns[t].env
        IN /\ DOMAIN env \subseteq SAFE_ENV_VARS \cap DOMAIN host
           /\ \A k \in DOMAIN env : env[k] = host[k]
           /\ \A k \in DOMAIN host \ SAFE_ENV_VARS : k \notin DOMAIN env
           /\ \A k \in DOMAIN host \cap SAFE_ENV_VARS : host[k] # "" => k \in DOMAIN env

C30_Witness ==
    \E t \in TurnIds :
        /\ turns[t].proc # "none"
        /\ turns[t].hostEnv = [HOME |-> "v", PATH |-> "", API_KEY |-> "v"]
        /\ turns[t].env = [HOME |-> "v"]

\* s is a prefix of r
IsPrefix(s, r) == Len(s) <= Len(r) /\ SubSeq(r, 1, Len(s)) = s

\* C31: the content of an assistant Message is append-only while streaming and
\* frozen afterwards: every update has the previous content as a prefix, and
\* once isStreaming is false neither the content nor the flag changes again.
C31_ContentAppendOnlyThenFrozen ==
    [][\A t \in TurnIds :
          /\ IsPrefix(turns[t].content, turns'[t].content)
          /\ ~turns[t].isStreaming =>
                /\ turns'[t].content = turns[t].content
                /\ ~turns'[t].isStreaming]_vars

\* the step is a call that aborts the session object o
AbortsObject(o) ==
    /\ last' # last
    /\ last'.op \in {"abortSession", "createSession", "removeSession"}
    /\ last'.w = objs[o].worktreeId

\* C32: isProcessing is true once a prompt is accepted; it goes from true to
\* false only when the turn's sendMessage completes (finalized or errored) or
\* the session is aborted; and once the terminal result event of a turn has
\* been processed the session is no longer processing.
C32_ProcessingUntilFinalized ==
    [][/\ \A t \in TurnIds' \ TurnIds :
             turns'[t].pc = "awaiting" => objs'[turns'[t].sess].isProcessing
       /\ \A o \in 1..Len(objs) :
             (objs[o].isProcessing /\ ~objs'[o].isProcessing) =>
                \/ \E t \in TurnIds : /\ turns[t].sess = o
                                      /\ turns[t].pc = "awaiting"
                                      /\ turns'[t].pc = "returned"
                \/ AbortsObject(o)
       /\ \A t \in TurnIds :
             turns'[t].results # <<>> => ~objs'[turns'[t].sess].isProcessing]_vars

\* the worktree id a turn belongs to
TurnWorktree(os, ts, t) == os[ts[t].sess].worktreeId

\* the step changes or creates state that belongs to the worktree id w
Touched(w) ==
    \/ sessions'[w] # sessions[w]
    \/ \E o \in 1..Len(objs') :
          /\ objs'[o].worktreeId = w
          /\ o > Len(objs) \/ objs'[o] # objs[o]
    \/ \E t \in 1..Len(turns') :
          /\ TurnWorktree(objs', turns', t) = w
          /\ t > Len(turns) \/ turns'[t] # turns[t]

\* C33: sessions are independent: a step changes the session, the session
\* objects and the turns of at most one worktree id, a call for an id changes
\* nothing that belongs to another id, and a step changes the line buffer of
\* at most one turn.
C33_SessionsAreIndependent ==
    [][/\ \A a, b \in Ids : a # b => ~(Touched(a) /\ Touched(b))
       /\ last' # last => \A b \in Ids \ {last'.w} : ~Touched(b)
       /\ \A t, u \in TurnIds :
             t # u => \/ turns'[t].lineBuffer = turns[t].lineBuffer
                      \/ turns'[u].lineBuffer = turns[u].lineBuffer]_vars

C33_Witness ==
    \E t, u \in TurnIds :
        /\ TurnWorktree(objs, turns, t) # TurnWorktree(objs, turns, u)
        /\ turns[t].lineBuffer # <<>>
        /\ turns[u].lineBuffer # <<>>
        /\ turns[t].lineBuffer # turns[u].lineBuffer

\* C34: an assistant event emits a running ToolCall for a tool_use block if
\* and only if the block has a non-empty id and a non-empty name, with the
\* block's id, name and input, a missing input being the empty object; blocks
\* lacking either emit nothing, and the text blocks of the record are appended
\* in order.
C34_ToolUseNeedsIdAndName ==
    [][\A t \in TurnIds, ev \in ToolEvents :
          (HandlesEvent(t, ev) /\ ev.type = "assistant") =>
          LET Complete(b) == /\ b.type = "tool_use"
                             /\ b.id \notin {<<>>, <<"">>}
                             /\ b.name \notin {<<>>, <<"">>}
              IsText(b) == b.type = "text" /\ b.text # <<>>
              Emits(b) == Complete(b) \/ IsText(b)
              uses == SelectSeq(ev.blocks, Complete)
              texts == SelectSeq(ev.blocks, IsText)
              emitting == SelectSeq(ev.blocks, Emits)
              new == SubSeq(turns'[t].toolCalls, Len(turns[t].toolCalls) + 1,
                            Len(turns'[t].toolCalls))
          IN /\ Len(turns'[t].toolCalls) = Len(turns[t].toolCalls) + Len(uses)
             /\ \A i \in 1..Len(uses) :
                   new[i] = [id |-> uses[i].id[1], name |-> uses[i].name[1],
                             input |-> IF uses[i].input = <<>> THEN "{}"
                                       ELSE uses[i].input[1],
                             status |-> "running", output |-> <<>>]
             /\ turns'[t].content =
                   turns[t].content \o [i \in 1..Len(texts) |-> texts[i].text[1]]
             /\ turns'[t].effects =
                   turns[t].effects \o
                   [i \in 1..Len(emitting) |->
                       IF emitting[i].type = "text" THEN "message" ELSE "tool"]]_vars

C34_Witness ==
    \E t \in TurnIds :
        /\ \E i \in 1..Len(turns[t].handled) :
              /\ turns[t].handled[i].type = "assistant"
              /\ Len(turns[t].handled[i].blocks) = 6
        /\ \E i \in 1..Len(turns[t].toolCalls) :
              turns[t].toolCalls[i] = [id |-> "t2", name |-> "Read", input |-> "file",
                                       status |-> "running", output |-> <<>>]
        /\ \E i \in 1..Len(turns[t].toolCalls) :
              /\ turns[t].toolCalls[i].id = "t1"
              /\ turns[t].toolCalls[i].input = "{}"
              /\ turns[t].toolCalls[i].status = "running"
        /\ turns[t].content = <<"t", "eacute">>

\* C35: each live session's workingDirectory is a path the Worktree Registry
\* currently reports as known, and it does not change while the id keeps the
\* same session.
C35_WorkingDirectoryStaysRegistered ==
    [][\A w \in Ids :
          /\ sessions'[w] # 0 =>
                objs'[sessions'[w]].workingDirectory \in knownWorktreePaths'
          /\ (sessions[w] # 0 /\ sessions'[w] = sessions[w]) =>
                objs'[sessions[w]].workingDirectory = objs[sessions[w]].workingDirectory]_vars

\* C36: the messages of a session are append-only: a step that accepts a
\* sendMessage appends to the session exactly one user Message followed by one
\* assistant Message and leaves the other sessions' messages alone; every
\* other step, a rejected sendMessage included, changes no messages; so the
\* roles alternate user, assistant.
C36_MessagesAppendOnly ==
    [][/\ \A o \in 1..Len(objs) :
             /\ IsPrefix(objs[o].messages, objs'[o].messages)
             /\ Len(turns') = Len(turns) => objs'[o].messages = objs[o].messages
             /\ Len(turns') # Len(turns) =>
                   LET t == Len(turns')
                       pair == <<[role |-> "user", id |-> t], [role |-> "assistant", id |-> t]>>
                   IN /\ Len(turns') = Len(turns) + 1
                      /\ objs'[o].messages =
                            IF o = turns'[t].sess THEN objs[o].messages \o pair
                            ELSE objs[o].messages
       /\ \A o \in 1..Len(objs') : \A i \in 1..Len(objs'[o].messages) :
             objs'[o].messages[i].role = IF i % 2 = 1 THEN "user" ELSE "assistant"]_vars

C36_Witness ==
    /\ last.op = "sendMessage"
    /\ last.res \notin {"pending", "ok"}
    /\ Has(last.w)
    /\ \E o \in 1..Len(objs) :
          /\ sessions[last.w] = o
          /\ Len(objs[o].messages) = 4

\* C37: in every reachable state, for every session object, a non-null
\* process handle implies isProcessing, and currentMessageId is non-null
\* exactly when isProcessing is true and then is the id of the last Message of
\* the session, which is an assistant Message.
C37_HandleAndMessageIdFollowProcessing ==
    \A o \in 1..Len(objs) :
        /\ objs[o].process # 0 => objs[o].isProcessing
        /\ objs[o].currentMessageId # 0 <=> objs[o].isProcessing
        /\ objs[o].isProcessing =>
              /\ objs[o].messages # <<>>
              /\ objs[o].messages[Len(objs[o].messages)] =
                    [role |-> "assistant", id |-> objs[o].currentMessageId]

C37_Witness ==
    \E o \in 1..Len(objs) :
        /\ objs[o].process # 0
        /\ objs[o].isProcessing
        /\ Len(objs[o].messages) = 4
        /\ objs[o].messages[4].id = objs[o].currentMessageId
        /\ last.op = "sendMessage"

\* turn t was aborted: its sendMessage has not completed and its session
\* object no longer holds its process
Aborted(t) ==
    /\ turns[t].pc = "awaiting"
    /\ turns[t].proc # "none"
    /\ objs[turns[t].sess].process # t

\* C38: once a turn was aborted (by abortSession, a replacing createSession or
\* removeSession), no later step changes its assistant Message, its effects,
\* its buffer or the state of its sendMessage, and the steps of its process
\* (exit, force-kill timer) change no session object and no other turn.
C38_AbortedTurnStaysSilent ==
    [][\A t \in TurnIds : Aborted(t) =>
          /\ [turns'[t] EXCEPT !.proc = turns[t].proc, !.timer = turns[t].timer,
                               !.killed = turns[t].killed,
                               !.signals = turns[t].signals] = turns[t]
          /\ turns'[t] # turns[t] =>
                /\ objs' = objs
                /\ Len(turns') = Len(turns)
                /\ \A u \in TurnIds \ {t} : turns'[u] = turns[u]]_vars

C38_Witness ==
    \E t, u \in TurnIds :
        /\ t < u
        /\ turns[t].sess = turns[u].sess
        /\ Aborted(t)
        /\ turns[t].proc = "exited"
        /\ turns[u].pc = "awaiting"
        /\ turns[u].proc = "alive"
        /\ objs[turns[u].sess].process = u
        /\ objs[turns[u].sess].isProcessing

\* C39: within one turn the authentication failure is surfaced at most once:
\* the stderr chunk with which the accumulated stderr first matches a pattern
\* emits one remediation message update and one session-error event, and
\* every other stderr chunk, those after the match included, emits nothing.
C39_AuthFailureSurfacedOnce ==
    [][\A t \in TurnIds :
          turns'[t].stderrBuffer # turns[t].stderrBuffer =>
             turns'[t].effects =
                turns[t].effects \o
                (IF isAuthError(turns'[t].stderrBuffer) /\ ~isAuthError(turns[t].stderrBuffer)
                 THEN <<"message", "error">> ELSE <<>>)]_vars

\* the first candidate, in the order findClaudePath tries them under the
\* environment host, among the paths in safe
FirstTrusted(safe, host) ==
    LET hits == {i \in Tried(host) : Candidates[i] \in safe} IN
    IF hits = {} THEN ""
    ELSE Candidates[CHOOSE i \in hits : \A j \in hits : i <= j]

\* C40: every child process spawned by sendMessage runs a binary that passes
\* the trust check at the time of the spawn, the first trusted candidate in
\* the fixed order; a binary that was trusted earlier and is not any more is
\* not spawned.
C40_SpawnedBinaryIsTrusted ==
    \A t \in TurnIds : turns[t].proc # "none" =>
        /\ turns[t].binary \in turns[t].safeAtSpawn
        /\ turns[t].binary = FirstTrusted(turns[t].safeAtSpawn, turns[t].hostEnv)

====
